---- MODULE Spec2Model ----
(***************************************************************************)
(* The named_colors crate: a name -> RGB table (HashMap<String, Color>)    *)
(* loaded from the bundled asset or from a caller's JSON string, extended  *)
(* by add_color and read by the two get_color_by_name functions.           *)
(*                                                                         *)
(* A name (Rust String / &str) is a sequence of one-character strings, so  *)
(* that to_lowercase is computed character by character.  A JSON input is  *)
(* its parsed shape (the value tree serde_json walks), or the mark that    *)
(* the text is not JSON at all.                                            *)
(***************************************************************************)
EXTENDS Integers, Sequences, FiniteSets, TLC

VARIABLES color_map, status, last, added

vars == <<color_map, status, last, added>>

(***************************************************************************)
(* Bounds of the model.                                                    *)
(***************************************************************************)
\* how many of BaseNames the callers use (each in three letter cases)
NumNames == 2
\* the largest number of entries of a caller's JSON object
MaxDocEntries == 1

\* the largest value of a u8 channel
U8Max == 255

(***************************************************************************)
(* Strings.                                                                *)
(***************************************************************************)
LowerLetters ==
    <<"a", "b", "c", "d", "e", "f", "g", "h", "i", "j", "k", "l", "m",
      "n", "o", "p", "q", "r", "s", "t", "u", "v", "w", "x", "y", "z">>

UpperLetters ==
    <<"A", "B", "C", "D", "E", "F", "G", "H", "I", "J", "K", "L", "M",
      "N", "O", "P", "Q", "R", "S", "T", "U", "V", "W", "X", "Y", "Z">>

\* the lower-case letter of each upper-case letter, and the reverse
LowercaseOf ==
    [c \in {UpperLetters[i] : i \in DOMAIN UpperLetters} |->
        LowerLetters[CHOOSE i \in DOMAIN UpperLetters : UpperLetters[i] = c]]

UppercaseOf ==
    [c \in {LowerLetters[i] : i \in DOMAIN LowerLetters} |->
        UpperLetters[CHOOSE i \in DOMAIN LowerLetters : LowerLetters[i] = c]]

\* char::to_lowercase on the characters of the model: an upper-case letter
\* becomes its lower-case letter, every other character is kept
char_to_lowercase(c) == IF c \in DOMAIN LowercaseOf THEN LowercaseOf[c] ELSE c

char_to_uppercase(c) == IF c \in DOMAIN UppercaseOf THEN UppercaseOf[c] ELSE c

\* str::to_lowercase: a new String, each character lowered
to_lowercase(s) == [i \in DOMAIN s |-> char_to_lowercase(s[i])]

to_uppercase(s) == [i \in DOMAIN s |-> char_to_uppercase(s[i])]

\* the first letter in upper case, the rest as given ("Red")
capitalized(s) == [i \in DOMAIN s |-> IF i = 1 THEN char_to_uppercase(s[i]) ELSE s[i]]

\* the text of a name, for format!
RECURSIVE text(_)
text(s) == IF s = <<>> THEN "" ELSE Head(s) \o text(Tail(s))

\* the names the tests and the doc examples use
BaseNames ==
    << <<"r", "e", "d">>,
       <<"b", "l", "u", "e">>,
       <<"s", "k", "y", "_", "b", "l", "u", "e">>,
       <<"s", "u", "n", "s", "e", "t", "_", "o", "r", "a", "n", "g", "e">> >>

\* every name a caller passes: each base name as "red", "Red" and "RED"
Names ==
    UNION { {BaseNames[i], capitalized(BaseNames[i]), to_uppercase(BaseNames[i])} :
            i \in 1..NumNames }

(***************************************************************************)
(* Color, NamedColorsError and the values the functions return.            *)
(***************************************************************************)
\* struct Color { r: u8, g: u8, b: u8 }
Color(r, g, b) == [r |-> r, g |-> g, b |-> b]

\* NamedColorsError::ParseError(SerdeError): the decoder's diagnostic
ParseError(diagnostic) == [variant |-> "ParseError", message |-> diagnostic]

\* NamedColorsError::Custom(String)
Custom(message) == [variant |-> "Custom", message |-> message]

NoError == [variant |-> "", message |-> ""]

\* impl fmt::Display for NamedColorsError (and so to_string())
to_string(e) ==
    IF e.variant = "ParseError"
    THEN "Parse error: " \o e.message
    ELSE "Error: " \o e.message

\* what a call returned: Ok(..) / Err(e) of a Result, Some(t) / None of an Option
Ok == [tag |-> "Ok", err |-> NoError, value |-> <<>>]

Err(e) == [tag |-> "Err", err |-> e, value |-> <<>>]

Some(t) == [tag |-> "Some", err |-> NoError, value |-> t]

None == [tag |-> "None", err |-> NoError, value |-> <<>>]

(***************************************************************************)
(* HashMap<String, Color>: a function from its keys to their colors.       *)
(***************************************************************************)
EmptyMap == [k \in {} |-> Color(0, 0, 0)]

contains_key(map, key) == key \in DOMAIN map

\* HashMap::insert: the key is added, or its value replaced
insert(map, key, color) ==
    [k \in (DOMAIN map) \cup {key} |-> IF k = key THEN color ELSE map[k]]

\* HashMap::get
get(map, key) == IF key \in DOMAIN map THEN Some(map[key]) ELSE None

(***************************************************************************)
(* JSON input, as serde_json reads it.  A scalar or a record's value is    *)
(* [kind, int, elems, fields]; elems are an array's elements, fields an    *)
(* object's <<key, value>> pairs in the order of the text.                 *)
(***************************************************************************)
JInt(n) == [kind |-> "int", int |-> n, elems |-> <<>>, fields |-> <<>>]

JFloat == [kind |-> "float", int |-> 0, elems |-> <<>>, fields |-> <<>>]

JString == [kind |-> "string", int |-> 0, elems |-> <<>>, fields |-> <<>>]

JNull == [kind |-> "null", int |-> 0, elems |-> <<>>, fields |-> <<>>]

JArray(elems) == [kind |-> "array", int |-> 0, elems |-> elems, fields |-> <<>>]

JObject(fields) == [kind |-> "object", int |-> 0, elems |-> <<>>, fields |-> fields]

\* the outcome of one decoding step: the value, or the decoder's diagnostic
Decoded(v) == [ok |-> TRUE, value |-> v, diagnostic |-> ""]

Failed(diagnostic) == [ok |-> FALSE, value |-> 0, diagnostic |-> diagnostic]

\* u8's Deserialize: an integer literal in 0..=255, nothing else
deserialize_u8(v) ==
    IF v.kind # "int" THEN Failed("invalid type")
    ELSE IF v.int < 0 \/ v.int > U8Max THEN Failed("invalid value")
    ELSE Decoded(v.int)

\* the derived visit_map of Color: the fields in the order of the text, a
\* repeated r/g/b is an error, any other key is skipped, and at the end
\* each of r, g, b must have been seen
RECURSIVE visit_map(_, _)
visit_map(fields, seen) ==
    IF fields = <<>>
    THEN IF DOMAIN seen = {"r", "g", "b"}
         THEN Decoded(Color(seen["r"], seen["g"], seen["b"]))
         ELSE Failed("missing field")
    ELSE LET key == Head(fields)[1]
             val == Head(fields)[2]
         IN  IF key \notin {"r", "g", "b"}
             THEN visit_map(Tail(fields), seen)
             ELSE IF key \in DOMAIN seen
             THEN Failed("duplicate field")
             ELSE IF ~deserialize_u8(val).ok
             THEN deserialize_u8(val)
             ELSE visit_map(Tail(fields),
                            [k \in (DOMAIN seen) \cup {key} |->
                                IF k = key THEN deserialize_u8(val).value ELSE seen[k]])

\* the derived visit_seq of Color: r, g, b by position, and serde_json's
\* end_seq rejects a fourth element
visit_seq(elems) ==
    IF Len(elems) < 1 THEN Failed("invalid length")
    ELSE IF ~deserialize_u8(elems[1]).ok THEN deserialize_u8(elems[1])
    ELSE IF Len(elems) < 2 THEN Failed("invalid length")
    ELSE IF ~deserialize_u8(elems[2]).ok THEN deserialize_u8(elems[2])
    ELSE IF Len(elems) < 3 THEN Failed("invalid length")
    ELSE IF ~deserialize_u8(elems[3]).ok THEN deserialize_u8(elems[3])
    ELSE IF Len(elems) > 3 THEN Failed("trailing characters")
    ELSE Decoded(Color(deserialize_u8(elems[1]).value,
                       deserialize_u8(elems[2]).value,
                       deserialize_u8(elems[3]).value))

\* #[derive(Deserialize)] struct Color, read by serde_json's
\* deserialize_struct: an object goes to visit_map, an array to visit_seq
deserialize_Color(v) ==
    IF v.kind = "object" THEN visit_map(v.fields, <<>>)
    ELSE IF v.kind = "array" THEN visit_seq(v.elems)
    ELSE Failed("invalid type")

\* HashMap<String, Color>'s visit_map: the entries in the order of the
\* text, each inserted (a repeated name keeps the later value); the first
\* entry that does not decode ends the whole decoding
RECURSIVE deserialize_entries(_, _)
deserialize_entries(entries, map) ==
    IF entries = <<>> THEN Decoded(map)
    ELSE LET name  == Head(entries)[1]
             color == deserialize_Color(Head(entries)[2])
         IN  IF ~color.ok THEN color
             ELSE deserialize_entries(Tail(entries), insert(map, name, color.value))

\* serde_json::from_str::<HashMap<String, Color>>: a JSON document is its
\* top-level kind and, for an object, its entries
from_str(doc) ==
    IF doc.kind = "invalid_syntax" THEN Failed("syntax error")
    ELSE IF doc.kind # "object" THEN Failed("invalid type")
    ELSE deserialize_entries(doc.entries, EmptyMap)

Document(kind, entries) == [kind |-> kind, entries |-> entries]

NoDocument == Document("none", <<>>)

(***************************************************************************)
(* The library's functions.  A function that takes &mut HashMap returns    *)
(* the map it leaves behind together with its return value.                *)
(***************************************************************************)
\* assets/named_colors.json, as far as the tests pin it down: "red" is
\* (255, 0, 0), and neither "blue" nor "sunset_orange" is present
BundledAsset ==
    Document("object",
             << <<BaseNames[1], JObject(<< <<"r", JInt(255)>>, <<"g", JInt(0)>>,
                                           <<"b", JInt(0)>> >>)>> >>)

\* pub fn load_colors: serde_json::from_str(data).map_err(ParseError)?
\* with data the bundled asset, then Ok(color_map)
load_colors ==
    IF from_str(BundledAsset).ok
    THEN [color_map |-> from_str(BundledAsset).value, ret |-> Ok]
    ELSE [color_map |-> EmptyMap,
          ret |-> Err(ParseError(from_str(BundledAsset).diagnostic))]

\* pub fn load_colors_from_file: the same on the caller's json_data; the
\* decoded map is returned as it is
load_colors_from_file(json_data) ==
    IF from_str(json_data).ok
    THEN [color_map |-> from_str(json_data).value, ret |-> Ok]
    ELSE [color_map |-> EmptyMap,
          ret |-> Err(ParseError(from_str(json_data).diagnostic))]

\* add_color with the insert moved before the duplicate check
add_color_insert_then_check(map, color_name, r, g, b) ==
    LET name == to_lowercase(color_name)
    IN  IF contains_key(map, name)
        THEN [color_map |-> insert(map, name, Color(r, g, b)),
              ret |-> Err(Custom("The color '" \o text(name) \o "' already exists."))]
        ELSE [color_map |-> insert(map, name, Color(r, g, b)), ret |-> Ok]

\* add_color without the to_lowercase of its first line
add_color_raw_name(map, color_name, r, g, b) ==
    IF contains_key(map, color_name)
    THEN [color_map |-> map,
          ret |-> Err(Custom("The color '" \o text(color_name) \o "' already exists."))]
    ELSE [color_map |-> insert(map, color_name, Color(r, g, b)), ret |-> Ok]

\* add_color without the contains_key check: HashMap::insert alone
add_color_unchecked(map, color_name, r, g, b) ==
    [color_map |-> insert(map, to_lowercase(color_name), Color(r, g, b)), ret |-> Ok]

\* pub fn add_color
add_color(map, color_name, r, g, b) ==
    LET name == to_lowercase(color_name)
    IN  IF contains_key(map, name)
        THEN [color_map |-> map,
              ret |-> Err(Custom("The color '" \o text(name) \o "' already exists."))]
        ELSE [color_map |-> insert(map, name, Color(r, g, b)), ret |-> Ok]

\* colors::get_color_by_name without the to_lowercase of its first line
get_color_by_name_raw(map, color_name) ==
    LET found == get(map, color_name)
    IN  IF found.tag = "Some"
        THEN Some(<<found.value.r, found.value.g, found.value.b>>)
        ELSE None

\* colors::get_color_by_name: color_map.get(&color_name).map(|color| ..),
\* with Option::map written out
get_color_by_name(map, color_name) ==
    LET name  == to_lowercase(color_name)
        found == get(map, name)
    IN  IF found.tag = "Some"
        THEN Some(<<found.value.r, found.value.g, found.value.b>>)
        ELSE None

\* the crate root's get_color_by_name without the to_lowercase of its first line
lib_get_color_by_name_raw(map, color_name) ==
    IF color_name \in DOMAIN map
    THEN Some(<<map[color_name].r, map[color_name].g, map[color_name].b>>)
    ELSE None

\* the crate root's get_color_by_name
lib_get_color_by_name(map, color_name) ==
    LET name == to_lowercase(color_name)
    IN  IF name \in DOMAIN map
        THEN Some(<<map[name].r, map[name].g, map[name].b>>)
        ELSE None

(***************************************************************************)
(* The inputs of the calls.                                                *)
(***************************************************************************)
\* what a caller's JSON gives as the value of one name
RecordValues ==
    << JObject(<< <<"r", JInt(255)>>, <<"g", JInt(0)>>, <<"b", JInt(0)>> >>),
       JObject(<< <<"b", JInt(0)>>, <<"g", JInt(0)>>, <<"r", JInt(255)>> >>),
       JObject(<< <<"r", JInt(255)>>, <<"g", JInt(0)>>, <<"b", JInt(0)>>,
                  <<"a", JInt(255)>> >>),
       JObject(<< <<"r", JInt(255)>>, <<"g", JInt(0)>> >>),
       JObject(<< <<"r", JInt(255)>>, <<"r", JInt(255)>>, <<"g", JInt(0)>>,
                  <<"b", JInt(0)>> >>),
       JObject(<< <<"r", JInt(256)>>, <<"g", JInt(0)>>, <<"b", JInt(0)>> >>),
       JObject(<< <<"r", JInt(-1)>>, <<"g", JInt(0)>>, <<"b", JInt(0)>> >>),
       JObject(<< <<"r", JFloat>>, <<"g", JInt(0)>>, <<"b", JInt(0)>> >>),
       JObject(<< <<"r", JString>>, <<"g", JInt(0)>>, <<"b", JInt(0)>> >>),
       JArray(<<JInt(255), JInt(0), JInt(0)>>),
       JArray(<<JInt(255), JInt(0)>>),
       JArray(<<JInt(255), JInt(0), JInt(0), JInt(0)>>),
       JNull,
       JInt(255) >>

\* a JSON object of at most MaxDocEntries entries
ObjectDocuments ==
    UNION { { Document("object", [i \in 1..n |-> <<f[i][1], RecordValues[f[i][2]]>>]) :
              f \in [1..n -> Names \X DOMAIN RecordValues] } :
            n \in 0..MaxDocEntries }

\* text that is not a JSON object, and text that is not JSON
OtherDocuments ==
    { Document(kind, <<>>) : kind \in {"invalid_syntax", "null", "int", "string", "array"} }

Documents == ObjectDocuments \cup OtherDocuments

\* the colors add_color is called with
AddColors == {Color(255, 0, 0), Color(135, 206, 235)}

(***************************************************************************)
(* The state: the caller's table, what the last call was and returned,     *)
(* and the colors add_color has accepted so far.                           *)
(***************************************************************************)
Call(op, name, color, doc, ret) ==
    [op |-> op, name |-> name, color |-> color, doc |-> doc, ret |-> ret]

Init ==
    /\ color_map = EmptyMap
    /\ status = "start"
    /\ last = Call("none", <<>>, Color(0, 0, 0), NoDocument, None)
    /\ added = EmptyMap

\* let color_map = load_colors()?
LoadColors ==
    /\ status = "start"
    /\ color_map' = load_colors.color_map
    /\ status' = IF load_colors.ret = Ok THEN "loaded" ELSE "failed"
    /\ last' = Call("load_colors", <<>>, Color(0, 0, 0), BundledAsset, load_colors.ret)
    /\ added' = added

\* let color_map = load_colors_from_file(json_data)?
LoadColorsFromFile ==
    \E json_data \in Documents :
        /\ status = "start"
        /\ LET out == load_colors_from_file(json_data)
           IN  /\ color_map' = out.color_map
               /\ status' = IF out.ret = Ok THEN "loaded" ELSE "failed"
               /\ last' = Call("load_colors_from_file", <<>>, Color(0, 0, 0), json_data,
                               out.ret)
        /\ added' = added

\* add_color(&mut color_map, color_name, r, g, b)
AddColor ==
    \E color_name \in Names, c \in AddColors :
        /\ status = "loaded"
        /\ LET out == add_color(color_map, color_name, c.r, c.g, c.b)
           IN  /\ color_map' = out.color_map
               /\ last' = Call("add_color", color_name, c, NoDocument, out.ret)
               /\ added' = IF out.ret = Ok
                           THEN insert(added, to_lowercase(color_name), c)
                           ELSE added
        /\ status' = status

\* colors::get_color_by_name(&color_map, color_name)
GetColorByName ==
    \E color_name \in Names :
        /\ status = "loaded"
        /\ last' = Call("get_color_by_name", color_name, Color(0, 0, 0), NoDocument,
                        get_color_by_name(color_map, color_name))
        /\ UNCHANGED <<color_map, status, added>>

\* named_colors::get_color_by_name(&color_map, color_name)
LibGetColorByName ==
    \E color_name \in Names :
        /\ status = "loaded"
        /\ last' = Call("lib_get_color_by_name", color_name, Color(0, 0, 0), NoDocument,
                        lib_get_color_by_name(color_map, color_name))
        /\ UNCHANGED <<color_map, status, added>>

Next ==
    \/ LoadColors
    \/ LoadColorsFromFile
    \/ AddColor
    \/ GetColorByName
    \/ LibGetColorByName

Spec == Init /\ [][Next]_vars

(***************************************************************************)
(* Properties.                                                             *)
(***************************************************************************)
\* the (r, g, b) tuple of a stored Color
rgb(color) == <<color.r, color.g, color.b>>

\* n is a letter-case variant of the name k
case_variant(n, k) == to_lowercase(n) = to_lowercase(k)

\* C1: whenever get_color_by_name is called with a letter-case variant of
\* a name stored in the table, it returns Some of the stored (r, g, b) of
\* that entry.
C1_LookupAnyCase ==
    (status = "loaded" /\ last.op = "get_color_by_name") =>
        \A k \in DOMAIN color_map :
            case_variant(last.name, k) => last.ret = Some(rgb(color_map[k]))

\* C2: add_color with a name whose lowercase form is already a key returns
\* an error and leaves the table as it was: no key added or removed, no
\* color changed, whatever channel values the call carried.
C2_DuplicateRejected ==
    [][(last'.op = "add_color" /\ to_lowercase(last'.name) \in DOMAIN color_map) =>
          (last'.ret.tag = "Err" /\ color_map' = color_map)]_vars

\* C2's case: a rejected add_color that carried another color than the
\* stored one
C2_Witness ==
    /\ last.op = "add_color"
    /\ last.ret.tag = "Err"
    /\ to_lowercase(last.name) \in DOMAIN color_map
    /\ color_map[to_lowercase(last.name)] # last.color

\* C3: every color add_color has accepted is returned by get_color_by_name
\* for every letter-case variant of its name, in every later state.
C3_AddedColorFound ==
    \A k \in DOMAIN added :
        \A n \in Names :
            case_variant(n, k) => get_color_by_name(color_map, n) = Some(rgb(added[k]))

\* C3's case: a color was accepted under a mixed-case name, and a later
\* add_color of the same name with another color was rejected
C3_Witness ==
    /\ last.op = "add_color"
    /\ last.ret.tag = "Err"
    /\ last.name # to_lowercase(last.name)
    /\ to_lowercase(last.name) \in DOMAIN added
    /\ added[to_lowercase(last.name)] # last.color

\* C4: every key of the table is lowercase, in every reachable state.
C4_KeysLowercase == \A k \in DOMAIN color_map : to_lowercase(k) = k

\* C5: the error of a rejected add_color, rendered with to_string(), is
\* exactly "The color '<name>' already exists." with <name> the lowercase
\* form of the name passed in.
C5_DuplicateMessage ==
    (last.op = "add_color" /\ last.ret.tag = "Err") =>
        to_string(last.ret.err) =
            "The color '" \o text(to_lowercase(last.name)) \o "' already exists."

\* C6: get_color_by_name with a name whose lowercase form is no key of the
\* table returns None; it returns an Option, never an error, and leaves
\* the table unchanged.
C6_AbsentIsNone ==
    [][last'.op = "get_color_by_name" =>
          /\ color_map' = color_map
          /\ last'.ret.tag \in {"Some", "None"}
          /\ last'.ret.err = NoError
          /\ (to_lowercase(last'.name) \notin DOMAIN color_map => last'.ret = None)]_vars

\* C6's case: a lookup of an absent name in a table that holds entries
C6_Witness ==
    /\ last.op = "get_color_by_name"
    /\ DOMAIN color_map # {}
    /\ to_lowercase(last.name) \notin DOMAIN color_map
    /\ last.ret = None

\* a JSON value that is an {r, g, b} record with each channel in 0..255
is_rgb_record(v) ==
    /\ v.kind = "object"
    /\ \A c \in {"r", "g", "b"} :
          /\ Cardinality({i \in DOMAIN v.fields : v.fields[i][1] = c}) = 1
          /\ \A i \in DOMAIN v.fields :
                v.fields[i][1] = c =>
                    /\ v.fields[i][2].kind = "int"
                    /\ v.fields[i][2].int \in 0..U8Max

\* a JSON object of name -> {r, g, b} records
is_color_table_json(doc) ==
    /\ doc.kind = "object"
    /\ \A i \in DOMAIN doc.entries : is_rgb_record(doc.entries[i][2])

\* C7: load_colors_from_file on input that is not a JSON object of
\* name -> {r, g, b} records with channels in 0..255 returns
\* Err(ParseError), and no table.
C7_BadShapeIsParseError ==
    (last.op = "load_colors_from_file" /\ ~is_color_table_json(last.doc)) =>
        /\ last.ret.tag = "Err"
        /\ last.ret.err.variant = "ParseError"
        /\ status = "failed"
        /\ color_map = EmptyMap

\* C9: an add_color call keeps every entry of the table with its color;
\* when it returns Ok the key set grows by exactly the lowercase form of
\* the name, which was no key before and now maps to (r, g, b).
C9_AddFrame ==
    [][last'.op = "add_color" =>
          /\ \A k \in DOMAIN color_map :
                k \in DOMAIN color_map' /\ color_map'[k] = color_map[k]
          /\ Cardinality(DOMAIN color_map') >= Cardinality(DOMAIN color_map)
          /\ (last'.ret = Ok =>
                /\ to_lowercase(last'.name) \notin DOMAIN color_map
                /\ DOMAIN color_map' = (DOMAIN color_map) \cup {to_lowercase(last'.name)}
                /\ color_map'[to_lowercase(last'.name)] = last'.color)]_vars

\* C9's case: an accepted add_color, under a mixed-case name, to a table
\* that already held an entry
C9_Witness ==
    /\ last.op = "add_color"
    /\ last.ret = Ok
    /\ last.name # to_lowercase(last.name)
    /\ Cardinality(DOMAIN color_map) >= 2

\* C10: the crate root's get_color_by_name and colors::get_color_by_name
\* return the same result for every name, and the crate root's finds every
\* color add_color accepted under any letter case of its name.
C10_SameLookup ==
    status = "loaded" =>
        \A n \in Names :
            /\ lib_get_color_by_name(color_map, n) = get_color_by_name(color_map, n)
            /\ (to_lowercase(n) \in DOMAIN added =>
                    lib_get_color_by_name(color_map, n) =
                        Some(rgb(added[to_lowercase(n)])))

\* C10's case: the crate root's lookup found an entry under a name that is
\* not in lower case
C10_Witness ==
    /\ last.op = "lib_get_color_by_name"
    /\ last.name # to_lowercase(last.name)
    /\ last.ret.tag = "Some"
    /\ last.ret = get_color_by_name(color_map, last.name)

====
